---- MODULE Spec2Model ----
(***************************************************************************)
(* Coin selection of the wallet: SelectCoinsBnB (Branch and Bound) and     *)
(* KnapsackSolver with ApproximateBestSubset, src/wallet/coinselection.cpp *)
(* and the deserialisation of partially signed transactions (PSBT),        *)
(* src/script/sign.h.  A behaviour is one call of one of these functions.  *)
(*                                                                         *)
(* A CInputCoin is a record                                                *)
(*   [outpoint, nValue, fee, long_term_fee]                                *)
(* where nValue is txout.nValue.  For SelectCoinsBnB the caller stores the *)
(* effective value in txout.nValue (coinselection.cpp:36-37); the gross    *)
(* value of such a coin is nValue + fee.  Coins are ordered and compared   *)
(* as std::set elements by their outpoint, which is unique per coin.       *)
(*                                                                         *)
(* Vectors are 1-based sequences; depth and the loop indices keep the      *)
(* 0-based values of the code, so position depth is utxo_pool[depth + 1].  *)
(***************************************************************************)
EXTENDS Integers, Sequences, FiniteSets

\* ------------------------------------------------------------------------
\* Bounds of the checked instance
\* ------------------------------------------------------------------------
\* largest number of coins in the pool handed to an algorithm
MaxPool == 3
\* largest txout.nValue of a coin passed to SelectCoinsBnB (the smallest
\* is -1, a coin the caller failed to filter out)
MaxValue == 2
\* largest txout.nValue of a coin passed to KnapsackSolver
MaxAmount == 4
\* largest fee and long_term_fee of a coin
MaxFee == 1
\* largest target_value
MaxTarget == 3
\* largest cost_of_change
MaxCost == 1
\* The try budget of SelectCoinsBnB.  coinselection.cpp:56 sets it to
\* 100000; the code only decrements it and compares it with 0, so the
\* checked instance scales it down to make budget exhaustion happen with
\* pools of MaxPool coins.
TOTAL_TRIES == 8

\* amount.h (21000000 * COIN); scaled to fit the checker's integers, it is
\* only the initial best_waste, larger than every reachable waste
MAX_MONEY == 2100000000

\* The number of repetitions of ApproximateBestSubset.  coinselection.cpp:168
\* defaults it to 1000; the code only counts up to it, so the checked
\* instance scales it down.
ITERATIONS == 3

\* wallet.h (CENT), the smallest change the wallet creates; scaled to the
\* values of the checked instance
MIN_CHANGE == 2

\* ------------------------------------------------------------------------
\* Bounds of the checked PSBT streams (script/sign.h)
\* ------------------------------------------------------------------------
\* largest number of records in the stream handed to
\* PartiallySignedInput::Unserialize, before its end
MaxRecords == 2
\* largest number of records a PSBT stream starts with after the magic
MaxGlobal == 2
\* largest number of records and separators that follow them
MaxRest == 3
\* largest number of inputs and of outputs of a transaction in a stream
MaxTx == 1

\* sign.h:84
PSBT_MAGIC_BYTES == 1952609136

\* ------------------------------------------------------------------------
\* Helpers
\* ------------------------------------------------------------------------
Values == -1..MaxValue

CInputCoin == [outpoint : 1..MaxPool, nValue : Values,
               fee : 0..MaxFee, long_term_fee : 0..MaxFee]

\* a fixed listing order of coins, used only to enumerate each pool once
Rank(c) == (c.nValue + 1) * (MaxFee + 1) * (MaxFee + 1)
           + c.fee * (MaxFee + 1) + c.long_term_fee

\* The pools a caller can pass to SelectCoinsBnB, up to the naming of the outpoints: position
\* i holds the coin of outpoint i and the coins are listed by Rank.  The
\* std::sort of SelectCoinsBnB and the random_shuffle of KnapsackSolver
\* then produce every order the algorithms can work on.
Pools ==
    UNION { { p \in [1..n -> CInputCoin] :
                /\ \A i \in 1..n : p[i].outpoint = i
                /\ \A i \in 1..(n - 1) : Rank(p[i]) <= Rank(p[i + 1]) }
            : n \in 0..MaxPool }

\* the pools KnapsackSolver is called with: amounts of real outputs, the
\* fee fields are not read
KnapsackPools ==
    UNION { { p \in [1..n -> [outpoint : 1..MaxPool, nValue : 0..MaxAmount,
                              fee : {0}, long_term_fee : {0}]] :
                /\ \A i \in 1..n : p[i].outpoint = i
                /\ \A i \in 1..(n - 1) : p[i].nValue <= p[i + 1].nValue }
            : n \in 0..MaxPool }

Coin(o, v, f, l) == [outpoint |-> o, nValue |-> v, fee |-> f, long_term_fee |-> l]

\* the end-to-end scenarios of the documentation, as
\* [pool, target_value, cost_of_change]; a coin of gross value v and fee f
\* is passed with txout.nValue = v - f
BnBScenarios ==
    { [pool |-> << Coin(1, 9, 1, 1) >>, target |-> 9, cost |-> 0],
      [pool |-> << Coin(1, 5, 0, 0), Coin(2, 3, 0, 0), Coin(3, 2, 0, 0) >>,
       target |-> 5, cost |-> 0],
      [pool |-> << Coin(1, 6, 1, 1), Coin(2, 3, 1, 1) >>, target |-> 5, cost |-> 2],
      [pool |-> << Coin(1, 2, 0, 0) >>, target |-> 5, cost |-> 0] }

KnapsackScenarios ==
    { [pool |-> << Coin(1, 5, 0, 0), Coin(2, 3, 0, 0) >>, target |-> 5],
      [pool |-> << Coin(1, 1, 0, 0), Coin(2, 1, 0, 0), Coin(3, 10, 0, 0) >>,
       target |-> 5] }

RECURSIVE SumSeq(_, _, _)
\* sum of f[i].nValue for i in lo..hi (0 when lo > hi)
SumSeq(f, lo, hi) == IF lo > hi THEN 0 ELSE f[lo].nValue + SumSeq(f, lo + 1, hi)

\* the amounts that are summed over the coins of a set
Amount(c, field) ==
    IF field = "nValue" THEN c.nValue
    ELSE IF field = "fee" THEN c.fee
    ELSE IF field = "gross" THEN c.nValue + c.fee
    ELSE c.fee - c.long_term_fee

RECURSIVE SumSet(_, _)
\* sum of Amount(c, field) over the coins c of a finite set
SumSet(S, field) ==
    IF S = {} THEN 0
    ELSE LET c == CHOOSE x \in S : TRUE
         IN  Amount(c, field) + SumSet(S \ {c}, field)

\* the reorderings (permutations) of a sequence
Reorderings(s) ==
    LET n == Len(s)
    IN  { [i \in 1..n |-> s[b[i]]] :
            b \in { f \in [1..n -> 1..n] : \A i, j \in 1..n : i # j => f[i] # f[j] } }

\* (a variant of descending that sorts the smaller value first)
ascending(a, b) == a.nValue < b.nValue
\* the comparator `descending`: a sorts before b
descending(a, b) == a.nValue > b.nValue

\* the results std::sort(begin, end, descending) can leave: a permutation in
\* which no element sorts before an earlier one (the order among equal
\* values is unspecified)
SortDescending(s) ==
    { p \in Reorderings(s) :
        \A i, j \in 1..Len(p) : i < j => ~descending(p[j], p[i]) }

\* the stale contents of the output parameters before a call
StaleCoin == Coin(MaxPool + 1, 1, 1, 0)

\* ------------------------------------------------------------------------
\* PSBT streams (script/sign.h)
\*
\* A stream is a sequence of tokens [type, key, val].  A record has
\* type >= 0, the first byte of its key; key stands for the bytes of the
\* key after the type and val for the bytes of the value.  A value is
\* described by what deserialising it yields: empty says that it yields the
\* default object (an empty script or stack, a null CTxOut, sighash 0); a
\* serialised transaction has vin and vout (the sizes of its vectors),
\* signed (some input carries a scriptSig or scriptWitness), hash (GetHash)
\* and prevout (the hash its inputs spend).
\* ------------------------------------------------------------------------
Null == [empty |-> TRUE, vin |-> 0, vout |-> 0, signed |-> FALSE, hash |-> 0, prevout |-> 0]
Bytes == [empty |-> FALSE, vin |-> 0, vout |-> 0, signed |-> FALSE, hash |-> 0, prevout |-> 0]
TxBytes(n, m, sg, h) ==
    [empty |-> FALSE, vin |-> n, vout |-> m, signed |-> sg, hash |-> h, prevout |-> 0]

Record(t, k, v) == [type |-> t, key |-> k, val |-> v]
\* sign.h:107 and 225-227: a key length of 0
PSBT_SEPARATOR == Record(-1, 0, Null)
\* a record that the end of the stream cuts short: reading it throws
Truncated == Record(-2, 0, Null)

\* sign.h:87-103
PSBT_GLOBAL_UNSIGNED_TX == 0
PSBT_IN_NON_WITNESS_UTXO == 0
PSBT_IN_WITNESS_UTXO == 1
PSBT_IN_PARTIAL_SIG == 2
PSBT_IN_SIGHASH == 3
PSBT_IN_REDEEMSCRIPT == 4
PSBT_IN_WITNESSSCRIPT == 5
PSBT_IN_BIP32_DERIVATION == 6
PSBT_IN_SCRIPTSIG == 7
PSBT_IN_SCRIPTWITNESS == 8
PSBT_OUT_REDEEMSCRIPT == 0
PSBT_OUT_WITNESSSCRIPT == 1
PSBT_OUT_BIP32_DERIVATION == 2
\* a type that no map knows
UnknownType == 9

\* key bytes that are not a valid public key, and key bytes that do not
\* have the size of one
InvalidKey == 2
BadSizeKey == 3

\* the sequences of at most n elements of S
SeqUpTo(S, n) == UNION { [1..k -> S] : k \in 0..n }

\* the records an input map is fed with
InputRecords ==
    { Record(PSBT_IN_NON_WITNESS_UTXO, 0, TxBytes(0, 1, FALSE, 0)) }
    \cup { Record(t, 0, v) : t \in { PSBT_IN_WITNESS_UTXO, PSBT_IN_SIGHASH,
                                     PSBT_IN_REDEEMSCRIPT, PSBT_IN_WITNESSSCRIPT,
                                     PSBT_IN_SCRIPTSIG, PSBT_IN_SCRIPTWITNESS },
                             v \in { Null, Bytes } }
    \cup { Record(t, k, Bytes) : t \in { PSBT_IN_PARTIAL_SIG, PSBT_IN_BIP32_DERIVATION },
                                 k \in { 0, 1, InvalidKey, BadSizeKey } }
    \cup { Record(UnknownType, k, Bytes) : k \in { 0, 1 } }

\* the streams PartiallySignedInput::Unserialize is called with: records,
\* then a separator, the end of the stream or a record cut short
InputStreams ==
    { r \o e : r \in SeqUpTo(InputRecords, MaxRecords),
               e \in { << PSBT_SEPARATOR >>, << >>, << Truncated >> } }

\* the records a PSBT stream starts with: unsigned transactions and a record
\* of unknown type
GlobalRecords ==
    { Record(PSBT_GLOBAL_UNSIGNED_TX, 0, v) :
          v \in { t \in { TxBytes(n, m, sg, 2) :
                              n \in 0..MaxTx, m \in 0..MaxTx, sg \in BOOLEAN } :
                     t.signed => t.vin > 0 } }
    \cup { Record(UnknownType, 0, Bytes) }

\* what follows them: separators, a record of type 3 and records of type 0
\* that hold a transaction
RestTokens ==
    { PSBT_SEPARATOR, Record(3, 0, Bytes),
      Record(0, 0, TxBytes(0, 1, FALSE, 0)), Record(0, 0, TxBytes(0, 1, FALSE, 1)) }

\* the streams PartiallySignedTransaction::Unserialize is called with, after
\* the magic bytes
PsbtStreams ==
    { g \o r \o e : g \in SeqUpTo(GlobalRecords, MaxGlobal),
                    r \in SeqUpTo(RestTokens, MaxRest),
                    e \in { << >>, << Truncated >> } }

\* sign.h:131-147: a default-constructed PartiallySignedInput
PartiallySignedInput ==
    [non_witness_utxo |-> << >>, witness_utxo |-> Null, redeem_script |-> Null,
     witness_script |-> Null, final_script_sig |-> Null,
     final_script_witness |-> Null, hd_keypaths |-> {}, partial_sigs |-> {},
     unknown |-> {}, sighash_type |-> 0]

\* sign.h:366-378: a default-constructed PSBTOutput
PSBTOutput ==
    [redeem_script |-> Null, witness_script |-> Null, hd_keypaths |-> {},
     unknown |-> {}]

VARIABLES
    pc,              \* position of the running call
    utxo_pool,       \* std::vector<CInputCoin>& utxo_pool
    target_value,    \* const CAmount& target_value / nTargetValue
    cost_of_change,  \* const CAmount& cost_of_change
    pool_in,         \* the pool as the caller passed it (never changed)
    out_set,         \* std::set<CInputCoin>& out_set
    value_ret,       \* CAmount& value_ret
    fee_ret,         \* CAmount& fee_ret
    ret,             \* the returned bool ("true", "false"): "none" while running
    \* locals of SelectCoinsBnB
    depth, remaining_tries, selection, done,
    lookahead, curr_waste, best_selection, best_waste,
    \* locals of KnapsackSolver
    coinLowestLarger, vValue, nTotalLower, vfBest, nBest,
    \* locals of ApproximateBestSubset
    nRep, nTargetValue,
    \* script/sign.h
    stream,          \* Stream& s, what is left to read after the magic
    magic,           \* the first four bytes of a PSBT stream
    caller,          \* "psbt" when the stream is a PSBT, "" when it is one input map
    tx,              \* CMutableTransaction tx
    unknown,         \* the keys of PartiallySignedTransaction::unknown
    inputs,          \* std::vector<PartiallySignedInput> inputs
    outputs,         \* std::vector<PSBTOutput> outputs
    input,           \* the PartiallySignedInput being deserialised
    output,          \* the PSBTOutput being deserialised
    error,           \* the message of the std::ios_base::failure thrown, "" if none
    keys_read,       \* the keys of the records the current map has taken
    tx_records,      \* the number of unsigned transaction records taken
    unterminated     \* the number of maps that ended with the stream

bnbLocals == << depth, remaining_tries, selection, done, lookahead,
                curr_waste, best_selection, best_waste >>
knapLocals == << coinLowestLarger, vValue, nTotalLower, vfBest, nBest,
                 nRep, nTargetValue >>
psbtVars == << stream, magic, caller, tx, unknown, inputs, outputs, input,
              output, error, keys_read, tx_records, unterminated >>
\* what coin selection leaves alone
params == << target_value, cost_of_change, pool_in, psbtVars >>

vars == << pc, utxo_pool, params, out_set, value_ret, fee_ret, ret,
           bnbLocals, knapLocals >>

\* the value fee_ret has when a call starts
FeeIn == 1

\* ------------------------------------------------------------------------
\* Initial state: a caller is about to call one of the two algorithms; the
\* output parameters hold what an earlier use left in them
\* ------------------------------------------------------------------------
InitLocals ==
    /\ out_set = {StaleCoin}
    /\ value_ret = 1
    /\ fee_ret = FeeIn
    /\ ret = "none"
    /\ depth = 0
    /\ remaining_tries = 0
    /\ selection = << >>
    /\ done = FALSE
    /\ lookahead = 0
    /\ curr_waste = 0
    /\ best_selection = << >>
    /\ best_waste = 0
    /\ coinLowestLarger = << >>
    /\ vValue = << >>
    /\ nTotalLower = 0
    /\ vfBest = << >>
    /\ nBest = 0
    /\ nRep = 0
    /\ nTargetValue = 0

\* the objects a deserialisation starts with
InitObjects ==
    /\ tx = Null
    /\ unknown = {}
    /\ inputs = << >>
    /\ outputs = << >>
    /\ input = PartiallySignedInput
    /\ output = PSBTOutput
    /\ error = ""
    /\ keys_read = << >>
    /\ tx_records = 0
    /\ unterminated = 0

\* no stream is being read
NoStream == stream = << >> /\ magic = 0 /\ caller = ""
\* no coin selection is being made
NoPool == utxo_pool = << >> /\ target_value = 1 /\ cost_of_change = 0

Init ==
    /\ InitLocals
    /\ InitObjects
    /\ \/ /\ pc = "call_bnb"
          /\ NoStream
          /\ \/ /\ utxo_pool \in Pools
                /\ target_value \in 1..MaxTarget
                /\ cost_of_change \in 0..MaxCost
             \/ \E sc \in BnBScenarios :
                    /\ utxo_pool = sc.pool
                    /\ target_value = sc.target
                    /\ cost_of_change = sc.cost
       \/ /\ pc = "call_knapsack"
          /\ NoStream
          /\ cost_of_change = 0
          /\ \/ /\ utxo_pool \in KnapsackPools
                /\ target_value \in 1..MaxTarget
             \/ \E sc \in KnapsackScenarios :
                    /\ utxo_pool = sc.pool
                    /\ target_value = sc.target
       \/ /\ pc = "call_input"
          /\ NoPool
          /\ stream \in InputStreams
          /\ magic = 0
          /\ caller = ""
       \/ /\ pc = "call_psbt"
          /\ NoPool
          /\ caller = "psbt"
          /\ \/ /\ magic = PSBT_MAGIC_BYTES
                /\ stream \in PsbtStreams
             \/ /\ magic = 0
                /\ stream = << >>
    /\ pool_in = utxo_pool

\* ------------------------------------------------------------------------
\* SelectCoinsBnB
\* ------------------------------------------------------------------------
\* lines 48-53: empty pool
BnBEmpty ==
    /\ pc = "call_bnb"
    /\ utxo_pool = << >>
    /\ out_set' = {}
    /\ value_ret' = 0
    /\ ret' = "false"
    /\ pc' = "bnb_returned"
    /\ UNCHANGED << utxo_pool, fee_ret, params, bnbLocals, knapLocals >>

\* lines 48-74: clear the outputs, sort, compute the lookahead, set up
BnBEnter ==
    /\ pc = "call_bnb"
    /\ utxo_pool # << >>
    /\ out_set' = {}
    /\ value_ret' = 0
    /\ depth' = 0
    /\ remaining_tries' = TOTAL_TRIES
    /\ selection' = [i \in 1..Len(utxo_pool) |-> [first |-> FALSE, second |-> FALSE]]
    /\ done' = FALSE
    /\ utxo_pool' \in SortDescending(utxo_pool)
    /\ lookahead' = SumSeq(utxo_pool, 1, Len(utxo_pool))
    /\ curr_waste' = 0
    /\ best_selection' = << >>
    /\ best_waste' = MAX_MONEY
    /\ pc' = "loop"
    /\ UNCHANGED << fee_ret, params, ret, knapLocals >>

\* (a variant of Traversed that also walks back over included positions)
TraversedOrIncluded(sel, d) == sel[d + 1].second \/ sel[d + 1].first
\* (a variant of Traversed that never walks back)
NeverTraversed(sel, d) == sel[d + 1].second /\ sel[d + 1].first
\* line 121: the second branch of position d was traversed
Traversed(sel, d) == sel[d + 1].second

\* (a variant of Restored that leaves lookahead as it is)
NotRestored(la, d) == la
\* line 124: lookahead with the value of position d given back
Restored(la, d) == la + utxo_pool[d + 1].nValue

\* (a variant of Omitted that does not mark the second branch)
OmittedUnmarked == [first |-> FALSE, second |-> FALSE]
\* lines 137-140: the selection entry of a position whose omission branch
\* is being traversed
Omitted == [first |-> FALSE, second |-> TRUE]

\* (a variant of Deselect that keeps the running sum)
DeselectNothing(sum, amount) == sum
\* lines 141-142: a running sum without the amount of the omitted coin
Deselect(sum, amount) == sum - amount

RECURSIVE WalkBack(_, _, _)
\* lines 121-133: the walk backwards over the positions whose second
\* branch was traversed, from position d
WalkBack(d, sel, la) ==
    IF Traversed(sel, d)
    THEN LET sel2 == [sel EXCEPT ![d + 1] = [first |-> FALSE, second |-> FALSE]]
             la2 == Restored(la, d)
         IN  IF d - 1 < 0
             THEN [depth |-> d - 1, selection |-> sel2, lookahead |-> la2, done |-> TRUE]
             ELSE WalkBack(d - 1, sel2, la2)
    ELSE [depth |-> d, selection |-> sel, lookahead |-> la, done |-> FALSE]

\* lines 116-146: step back and take the other branch, then --remaining_tries.
\* selection.at(-1) throws std::out_of_range when depth is 0.
Backtrack ==
    IF depth - 1 < 0
    THEN /\ pc' = "out_of_range"
         /\ depth' = depth - 1
         /\ UNCHANGED << selection, lookahead, done, value_ret, curr_waste,
                         remaining_tries >>
    ELSE LET w == WalkBack(depth - 1, selection, lookahead)
         IN  /\ done' = w.done
             /\ lookahead' = w.lookahead
             /\ remaining_tries' = remaining_tries - 1
             /\ IF w.done
                THEN /\ depth' = w.depth
                     /\ selection' = w.selection
                     /\ UNCHANGED << value_ret, curr_waste >>
                     /\ pc' = "loop_done"
                ELSE /\ selection' = [w.selection EXCEPT ![w.depth + 1] = Omitted]
                     /\ value_ret' = Deselect(value_ret, utxo_pool[w.depth + 1].nValue)
                     /\ curr_waste' = Deselect(curr_waste,
                                               utxo_pool[w.depth + 1].fee
                                               - utxo_pool[w.depth + 1].long_term_fee)
                     /\ depth' = w.depth + 1
                     /\ pc' = "loop"

\* the conditions of the if-chain of lines 79-101, in order
\* (a variant of TriesOut that stops one iteration late)
TriesOutLate == remaining_tries < 0
TriesOut == remaining_tries <= 0
\* (a variant of Overshoot that lets one more unit through)
OvershootLoose == value_ret > target_value + cost_of_change + 1
Overshoot == value_ret > target_value + cost_of_change
\* (a variant of MoreWasteful that gives up a branch one unit early)
MoreWastefulNearly == curr_waste + 2 > best_waste
MoreWasteful == curr_waste > best_waste
InRange == value_ret >= target_value
AtLeaf == depth >= Len(utxo_pool)
\* (a variant of CannotReach that also gives up when the rest reaches the
\* target exactly)
CannotReachOrJust == value_ret + lookahead <= target_value
\* (a variant of CannotReach that tolerates a shortfall of one unit)
CannotReachByTwo == value_ret + lookahead < target_value - 1
CannotReach == value_ret + lookahead < target_value

\* (a variant of AtRoot that never takes the break of line 97)
NeverAtRoot == depth < 0
\* line 96: the search is at the first position
AtRoot == depth = 0

bnbFrame == << utxo_pool, out_set, fee_ret, params, ret, knapLocals >>

\* lines 79-80
BnBTriesExhausted ==
    /\ pc = "loop"
    /\ TriesOut
    /\ pc' = "break_tries"
    /\ UNCHANGED << bnbFrame, bnbLocals, value_ret >>

\* lines 81-82
BnBOvershoot ==
    /\ pc = "loop"
    /\ ~TriesOut /\ Overshoot
    /\ Backtrack
    /\ UNCHANGED << bnbFrame, best_selection, best_waste >>

\* lines 83-84
BnBWastePrune ==
    /\ pc = "loop"
    /\ ~TriesOut /\ ~Overshoot /\ MoreWasteful
    /\ Backtrack
    /\ UNCHANGED << bnbFrame, best_selection, best_waste >>

\* (a variant of IsBetter that keeps the first of equally wasteful selections)
IsStrictlyBetter(waste, best) == waste < best
\* (a variant of IsBetter that records every in-range selection that is
\* reached)
IsAnyWaste(waste, best) == waste <= best \/ waste > best
\* the comparison of line 87
IsBetter(waste, best) == waste <= best

\* lines 85-92
BnBInRange ==
    /\ pc = "loop"
    /\ ~TriesOut /\ ~Overshoot /\ ~MoreWasteful /\ InRange
    /\ LET waste == curr_waste + (value_ret - target_value)
       IN  IF IsBetter(waste, best_waste)
           THEN /\ best_selection' = selection
                /\ best_waste' = waste
           ELSE UNCHANGED << best_selection, best_waste >>
    /\ Backtrack
    /\ UNCHANGED bnbFrame

\* lines 93-94
BnBLeaf ==
    /\ pc = "loop"
    /\ ~TriesOut /\ ~Overshoot /\ ~MoreWasteful /\ ~InRange /\ AtLeaf
    /\ Backtrack
    /\ UNCHANGED << bnbFrame, best_selection, best_waste >>

\* lines 95-97
BnBUnreachable ==
    /\ pc = "loop"
    /\ ~TriesOut /\ ~Overshoot /\ ~MoreWasteful /\ ~InRange /\ ~AtLeaf
    /\ CannotReach
    /\ AtRoot
    /\ pc' = "break_depth0"
    /\ UNCHANGED << bnbFrame, bnbLocals, value_ret >>

\* lines 95, 98-100
BnBLookaheadPrune ==
    /\ pc = "loop"
    /\ ~TriesOut /\ ~Overshoot /\ ~MoreWasteful /\ ~InRange /\ ~AtLeaf
    /\ CannotReach
    /\ ~AtRoot
    /\ Backtrack
    /\ UNCHANGED << bnbFrame, best_selection, best_waste >>

\* lines 101-113, 146: include the utxo at depth, unless the assertion of
\* line 103 fails and ends the process
BnBInclude ==
    /\ pc = "loop"
    /\ ~TriesOut /\ ~Overshoot /\ ~MoreWasteful /\ ~InRange /\ ~AtLeaf
    /\ ~CannotReach
    /\ IF utxo_pool[depth + 1].nValue >= 0
       THEN /\ lookahead' = lookahead - utxo_pool[depth + 1].nValue
            /\ curr_waste' = curr_waste
                   + (utxo_pool[depth + 1].fee - utxo_pool[depth + 1].long_term_fee)
            /\ selection' = [selection EXCEPT ![depth + 1].first = TRUE]
            /\ value_ret' = value_ret + utxo_pool[depth + 1].nValue
            /\ depth' = depth + 1
            /\ remaining_tries' = remaining_tries - 1
            /\ pc' = "loop"
       ELSE /\ pc' = "assert_failed"
            /\ UNCHANGED << lookahead, curr_waste, selection, value_ret, depth,
                            remaining_tries >>
    /\ UNCHANGED << bnbFrame, done, best_selection, best_waste >>

AfterLoop == pc \in {"break_tries", "break_depth0", "loop_done"}

\* the positions selected by a selection vector
Chosen(sel) == { i \in 1..Len(sel) : sel[i].first }

\* (a variant of HasSolution that only trusts a completed search)
HasSolutionOfFullSearch == ~(best_selection = << >>) /\ done
\* line 150: a selection was recorded
HasSolution == ~(best_selection = << >>)

\* (a variant of OutValue that adds the fee of each coin to its value)
OutValueWithFee(picked) == SumSet(picked, "gross")
\* line 160: the amount added to value_ret for the coins picked
OutValue(picked) == SumSet(picked, "nValue")

\* (a variant of Accumulated that starts from nothing)
Replaced(sum, amount) == amount
\* line 159: fee_ret += ...
Accumulated(sum, amount) == sum + amount

\* line 159: the amount added to fee_ret for the coins picked
OutFee(picked) == SumSet(picked, "fee")

\* lines 149-152
BnBNoSolution ==
    /\ AfterLoop
    /\ ~HasSolution
    /\ ret' = "false"
    /\ pc' = "bnb_returned"
    /\ UNCHANGED << utxo_pool, out_set, value_ret, fee_ret, params, bnbLocals,
                    knapLocals >>

\* lines 154-164
BnBSolution ==
    /\ AfterLoop
    /\ HasSolution
    /\ LET picked == { utxo_pool[i] : i \in Chosen(best_selection) }
       IN  /\ out_set' = out_set \cup picked
           /\ fee_ret' = Accumulated(fee_ret, OutFee(picked))
           /\ value_ret' = OutValue(picked)
    /\ ret' = "true"
    /\ pc' = "bnb_returned"
    /\ UNCHANGED << utxo_pool, params, bnbLocals, knapLocals >>

\* ------------------------------------------------------------------------
\* ApproximateBestSubset
\* ------------------------------------------------------------------------
\* (a variant of ReachedTarget that takes every total as reaching)
ReachedTargetAtOnce(total, target) == total >= 0
\* (a variant of ReachedTarget that accepts a total one unit short)
ReachedTargetNearly(total, target) == total >= target - 1
\* line 196: the running total reached the target
ReachedTarget(total, target) == total >= target

\* (a variant of IsTighter that also records a total equal to the best)
IsTighterOrSame(total, best) == total <= best
\* line 199: the total is below the best sum so far
IsTighter(total, best) == total < best

\* the locals of ApproximateBestSubset as the body of the loop of line 184
\* leaves them for candidate i (0-based) of pass nPass
AfterCandidate(nPass, i, vfIncluded, nTotal, fReachedTarget, nb, vfb) ==
    [nPass |-> nPass, i |-> i, vfIncluded |-> vfIncluded, nTotal |-> nTotal,
     fReachedTarget |-> fReachedTarget, nBest |-> nb, vfBest |-> vfb]

\* lines 192-207: the body of the loop of line 184 for candidate i
\* (0-based) of pass nPass, and the locals it leaves; rnd[i + 1] is what
\* randbool() returns for candidate i in pass 0
Candidate(rnd, vv, target, nPass, i, vfIncluded, nTotal, fReachedTarget, best) ==
    IF (IF nPass = 0 THEN rnd[i + 1] ELSE ~vfIncluded[i + 1])
    THEN LET total == nTotal + vv[i + 1].nValue
             incl == [j \in 1..Len(vv) |-> j = i + 1 \/ vfIncluded[j]]
         IN  IF ReachedTarget(total, target)
             THEN IF IsTighter(total, best.nBest)
                  THEN AfterCandidate(nPass, i, vfIncluded, nTotal, TRUE, total, incl)
                  ELSE AfterCandidate(nPass, i, vfIncluded, nTotal, TRUE,
                                      best.nBest, best.vfBest)
             ELSE AfterCandidate(nPass, i, incl, total, fReachedTarget,
                                 best.nBest, best.vfBest)
    ELSE AfterCandidate(nPass, i, vfIncluded, nTotal, fReachedTarget,
                        best.nBest, best.vfBest)

RECURSIVE Passes(_, _, _, _, _, _, _, _, _)
\* lines 182-209: the two passes of one repetition, from candidate i
\* (0-based) of pass nPass.  best holds nBest and vfBest, and in steps the
\* locals after each candidate so far.  (The one-element set makes the
\* locals after a candidate a value that is computed once.)
Passes(rnd, vv, target, nPass, i, vfIncluded, nTotal, fReachedTarget, best) ==
    IF nPass >= 2 \/ (i = 0 /\ fReachedTarget)
    THEN best
    ELSE IF i >= Len(vv)
    THEN Passes(rnd, vv, target, nPass + 1, 0, vfIncluded, nTotal, fReachedTarget, best)
    ELSE CHOOSE r \in
             { Passes(rnd, vv, target, nPass, i + 1, st.vfIncluded, st.nTotal,
                      st.fReachedTarget,
                      [nBest |-> st.nBest, vfBest |-> st.vfBest,
                       steps |-> Append(best.steps, st)])
               : st \in { Candidate(rnd, vv, target, nPass, i, vfIncluded, nTotal,
                                    fReachedTarget, best) } } : TRUE

\* lines 179-209: one repetition
Repetition(rnd, vv, target, best) ==
    Passes(rnd, vv, target, 0, 0, [i \in 1..Len(vv) |-> FALSE], 0, FALSE,
           [nBest |-> best.nBest, vfBest |-> best.vfBest, steps |-> << >>])

\* (a variant of MoreRepetitions that runs every repetition)
MoreRepetitionsToLimit == nRep < ITERATIONS
\* line 177: the loop condition
MoreRepetitions == nRep < ITERATIONS /\ nBest # nTargetValue

InApproximate == pc \in {"approx1", "approx2"}

\* lines 177-210: one repetition of the loop, for any outcome of the
\* random source
ApproximateRepetition ==
    /\ InApproximate
    /\ MoreRepetitions
    /\ \E rnd \in [1..Len(vValue) -> BOOLEAN] :
         LET b == Repetition(rnd, vValue, nTargetValue,
                             [nBest |-> nBest, vfBest |-> vfBest])
         IN  /\ nBest' = b.nBest
             /\ vfBest' = b.vfBest
    /\ nRep' = nRep + 1
    /\ UNCHANGED << pc, utxo_pool, params, out_set, value_ret, fee_ret, ret,
                    bnbLocals, coinLowestLarger, vValue, nTotalLower, nTargetValue >>

\* ------------------------------------------------------------------------
\* KnapsackSolver
\* ------------------------------------------------------------------------
\* (a variant of KnapsackEnter that does not reset value_ret)
KnapsackEnterKeepsValue ==
    /\ pc = "call_knapsack"
    /\ out_set' = {}
    /\ coinLowestLarger' = << >>
    /\ vValue' = << >>
    /\ nTotalLower' = 0
    /\ utxo_pool' \in Reorderings(utxo_pool)
    /\ pc' = "scan"
    /\ UNCHANGED << params, value_ret, fee_ret, ret, bnbLocals, vfBest, nBest,
                    nRep, nTargetValue >>

\* (a variant of KnapsackEnter that does not clear out_set)
KnapsackEnterKeepsOutSet ==
    /\ pc = "call_knapsack"
    /\ value_ret' = 0
    /\ coinLowestLarger' = << >>
    /\ vValue' = << >>
    /\ nTotalLower' = 0
    /\ utxo_pool' \in Reorderings(utxo_pool)
    /\ pc' = "scan"
    /\ UNCHANGED << params, out_set, fee_ret, ret, bnbLocals, vfBest, nBest,
                    nRep, nTargetValue >>

\* lines 215-223: clear the outputs and shuffle the pool
KnapsackEnter ==
    /\ pc = "call_knapsack"
    /\ out_set' = {}
    /\ value_ret' = 0
    /\ coinLowestLarger' = << >>
    /\ vValue' = << >>
    /\ nTotalLower' = 0
    /\ utxo_pool' \in Reorderings(utxo_pool)
    /\ pc' = "scan"
    /\ UNCHANGED << params, fee_ret, ret, bnbLocals, vfBest, nBest, nRep,
                    nTargetValue >>

\* (a variant of IsLower that also takes a coin of target + MIN_CHANGE)
IsLowerOrEdge(coin) == coin.nValue <= target_value + MIN_CHANGE
\* line 233: a coin below the target plus MIN_CHANGE
IsLower(coin) == coin.nValue < target_value + MIN_CHANGE

\* (a variant of IsLowestLarger that lacks the test for the first larger coin)
IsLowerThanLarger(coin, larger) ==
    ~(larger = << >>) /\ coin.nValue < larger[1].nValue
\* (a variant of IsLowestLarger that keeps the largest coin)
IsHighestLarger(coin, larger) ==
    larger = << >> \/ coin.nValue > larger[1].nValue
\* line 238: a larger coin that is the lowest so far
IsLowestLarger(coin, larger) ==
    larger = << >> \/ coin.nValue < larger[1].nValue

RECURSIVE Scan(_, _, _, _, _)
\* lines 225-242: the pass over the shuffled pool from position i (1-based);
\* exact holds the coin that ended the pass at line 227-231, if any
Scan(pool, i, vv, total, larger) ==
    IF i > Len(pool)
    THEN [exact |-> << >>, vValue |-> vv, nTotalLower |-> total,
          coinLowestLarger |-> larger]
    ELSE LET coin == pool[i]
         IN  IF coin.nValue = target_value
             THEN [exact |-> << coin >>, vValue |-> vv, nTotalLower |-> total,
                   coinLowestLarger |-> larger]
             ELSE IF IsLower(coin)
             THEN Scan(pool, i + 1, Append(vv, coin), total + coin.nValue, larger)
             ELSE IF IsLowestLarger(coin, larger)
             THEN Scan(pool, i + 1, vv, total, << coin >>)
             ELSE Scan(pool, i + 1, vv, total, larger)

\* (a variant of Scanned that starts the pass at the second coin)
ScannedFromSecond == Scan(utxo_pool, 2, << >>, 0, << >>)
Scanned == Scan(utxo_pool, 1, << >>, 0, << >>)

knapFrame == << utxo_pool, params, fee_ret, bnbLocals >>

ScanLocals ==
    /\ vValue' = Scanned.vValue
    /\ nTotalLower' = Scanned.nTotalLower
    /\ coinLowestLarger' = Scanned.coinLowestLarger

\* lines 225-232: a coin of exactly the target value
KnapsackExact ==
    /\ pc = "scan"
    /\ Scanned.exact # << >>
    /\ ScanLocals
    /\ out_set' = out_set \cup {Scanned.exact[1]}
    /\ value_ret' = value_ret + Scanned.exact[1].nValue
    /\ ret' = "true"
    /\ pc' = "knapsack_returned"
    /\ UNCHANGED << knapFrame, vfBest, nBest, nRep, nTargetValue >>

\* lines 244-252: the lower coins sum to the target
KnapsackAllLower ==
    /\ pc = "scan"
    /\ Scanned.exact = << >>
    /\ Scanned.nTotalLower = target_value
    /\ ScanLocals
    /\ LET lower == { Scanned.vValue[i] : i \in 1..Len(Scanned.vValue) }
       IN  /\ out_set' = out_set \cup lower
           /\ value_ret' = value_ret + SumSeq(Scanned.vValue, 1, Len(Scanned.vValue))
    /\ ret' = "true"
    /\ pc' = "knapsack_returned"
    /\ UNCHANGED << knapFrame, vfBest, nBest, nRep, nTargetValue >>

\* lines 254-257: the lower coins do not reach the target, no larger coin
KnapsackFail ==
    /\ pc = "scan"
    /\ Scanned.exact = << >>
    /\ Scanned.nTotalLower < target_value
    /\ Scanned.coinLowestLarger = << >>
    /\ ScanLocals
    /\ ret' = "false"
    /\ pc' = "knapsack_returned"
    /\ UNCHANGED << knapFrame, out_set, value_ret, vfBest, nBest, nRep, nTargetValue >>

\* lines 254-261: the lower coins do not reach the target, take the larger coin
KnapsackLowestLarger ==
    /\ pc = "scan"
    /\ Scanned.exact = << >>
    /\ Scanned.nTotalLower < target_value
    /\ Scanned.coinLowestLarger # << >>
    /\ ScanLocals
    /\ out_set' = out_set \cup {Scanned.coinLowestLarger[1]}
    /\ value_ret' = value_ret + Scanned.coinLowestLarger[1].nValue
    /\ ret' = "true"
    /\ pc' = "knapsack_returned"
    /\ UNCHANGED << knapFrame, vfBest, nBest, nRep, nTargetValue >>

\* lines 263-268 and 172-173: sort the lower coins and start the first
\* approximation, against the target
KnapsackApproximate ==
    /\ pc = "scan"
    /\ Scanned.exact = << >>
    /\ Scanned.nTotalLower > target_value
    /\ vValue' \in SortDescending(Scanned.vValue)
    /\ nTotalLower' = Scanned.nTotalLower
    /\ coinLowestLarger' = Scanned.coinLowestLarger
    /\ vfBest' = [i \in 1..Len(Scanned.vValue) |-> TRUE]
    /\ nBest' = Scanned.nTotalLower
    /\ nRep' = 0
    /\ nTargetValue' = target_value
    /\ pc' = "approx1"
    /\ UNCHANGED << knapFrame, out_set, value_ret, ret >>

\* (a variant of NeedSecondRun that never runs again)
NeedSecondRunNever == nBest # target_value /\ nTotalLower < target_value
\* (a variant of NeedSecondRun that does not look at the lower total)
NeedSecondRunAlways == nBest # target_value
\* line 269: the condition of the second approximation
NeedSecondRun == nBest # target_value /\ nTotalLower >= target_value + MIN_CHANGE

\* lines 269-270 and 172-173: start the second approximation, against the
\* target plus MIN_CHANGE
KnapsackSecondRun ==
    /\ pc = "approx1"
    /\ ~MoreRepetitions
    /\ NeedSecondRun
    /\ vfBest' = [i \in 1..Len(vValue) |-> TRUE]
    /\ nBest' = nTotalLower
    /\ nRep' = 0
    /\ nTargetValue' = target_value + MIN_CHANGE
    /\ pc' = "approx2"
    /\ UNCHANGED << knapFrame, out_set, value_ret, ret, coinLowestLarger, vValue,
                    nTotalLower >>

\* the approximations are over
Approximated ==
    /\ InApproximate
    /\ ~MoreRepetitions
    /\ pc = "approx1" => ~NeedSecondRun

\* (a variant of PreferLarger that does not compare the larger coin with
\* the best sum)
PreferLargerIfShort ==
    /\ ~(coinLowestLarger = << >>)
    /\ nBest # target_value /\ nBest < target_value + MIN_CHANGE
\* (a variant of PreferLarger that keeps the subset when the larger coin
\* equals it)
PreferStrictlyLowerLarger ==
    /\ ~(coinLowestLarger = << >>)
    /\ \/ (nBest # target_value /\ nBest < target_value + MIN_CHANGE)
       \/ coinLowestLarger[1].nValue < nBest
\* lines 274-275
PreferLarger ==
    /\ coinLowestLarger # << >>
    /\ \/ (nBest # target_value /\ nBest < target_value + MIN_CHANGE)
       \/ coinLowestLarger[1].nValue <= nBest

\* lines 274-279, 299
KnapsackReturnLarger ==
    /\ Approximated
    /\ PreferLarger
    /\ out_set' = out_set \cup {coinLowestLarger[1]}
    /\ value_ret' = value_ret + coinLowestLarger[1].nValue
    /\ ret' = "true"
    /\ pc' = "knapsack_returned"
    /\ UNCHANGED << knapFrame, knapLocals >>

\* lines 280-299
KnapsackReturnSubset ==
    /\ Approximated
    /\ ~PreferLarger
    /\ LET best == { i \in 1..Len(vValue) : vfBest[i] }
       IN  /\ out_set' = out_set \cup { vValue[i] : i \in best }
           /\ value_ret' = value_ret + SumSet({ vValue[i] : i \in best }, "nValue")
    /\ ret' = "true"
    /\ pc' = "knapsack_returned"
    /\ UNCHANGED << knapFrame, knapLocals >>

\* ------------------------------------------------------------------------
\* PSBT deserialisation (script/sign.h)
\* ------------------------------------------------------------------------
coinVars == << utxo_pool, target_value, cost_of_change, pool_in, out_set,
               value_ret, fee_ret, ret, bnbLocals, knapLocals >>

\* the outcome of one record: the exception it throws, if any, and the
\* object it leaves
Thrown(msg, obj) == [error |-> msg, object |-> obj]
Read(obj) == [error |-> "", object |-> obj]

SizeOfSigKey == "Size of key was not the expected size for the type partial signature pubkey"
SizeOfPathKey == "Size of key was not the expected size for the type BIP32 keypath"

\* sign.h:255-262, 294-301, 445-452: the checks of a key that holds a pubkey
PubKeyError(rec, size_msg) ==
    IF rec.key = BadSizeKey THEN size_msg
    ELSE IF rec.key = InvalidKey THEN "Invalid pubkey"
    ELSE ""

\* sign.h:239-353: the switch of PartiallySignedInput::Unserialize
InputRecord(inp, rec) ==
    CASE rec.type = PSBT_IN_NON_WITNESS_UTXO ->
           IF inp.non_witness_utxo # << >>
           THEN Thrown("Duplicate Key, input non-witness utxo already provided", inp)
           ELSE Read([inp EXCEPT !.non_witness_utxo = << rec.val >>])
      [] rec.type = PSBT_IN_WITNESS_UTXO ->
           IF ~inp.witness_utxo.empty
           THEN Thrown("Duplicate Key, input witness utxo already provided", inp)
           ELSE Read([inp EXCEPT !.witness_utxo = rec.val])
      [] rec.type = PSBT_IN_PARTIAL_SIG ->
           IF PubKeyError(rec, SizeOfSigKey) # ""
           THEN Thrown(PubKeyError(rec, SizeOfSigKey), inp)
           ELSE IF rec.key \in inp.partial_sigs
           THEN Thrown("Duplicate Key, input partial signature for pubkey already provided", inp)
           ELSE Read([inp EXCEPT !.partial_sigs = @ \cup { rec.key }])
      [] rec.type = PSBT_IN_SIGHASH ->
           IF inp.sighash_type > 0
           THEN Thrown("Duplicate Key, input sighash type already provided", inp)
           ELSE Read([inp EXCEPT !.sighash_type = IF rec.val.empty THEN 0 ELSE 1])
      [] rec.type = PSBT_IN_REDEEMSCRIPT ->
           IF ~inp.redeem_script.empty
           THEN Thrown("Duplicate Key, input redeemScript already provided", inp)
           ELSE Read([inp EXCEPT !.redeem_script = rec.val])
      [] rec.type = PSBT_IN_WITNESSSCRIPT ->
           IF ~inp.witness_script.empty
           THEN Thrown("Duplicate Key, input witnessScript already provided", inp)
           ELSE Read([inp EXCEPT !.witness_script = rec.val])
      [] rec.type = PSBT_IN_BIP32_DERIVATION ->
           IF PubKeyError(rec, SizeOfPathKey) # ""
           THEN Thrown(PubKeyError(rec, SizeOfPathKey), inp)
           ELSE IF rec.key \in inp.hd_keypaths
           THEN Thrown("Duplicate Key, input pubkey derivation path already provided", inp)
           ELSE Read([inp EXCEPT !.hd_keypaths = @ \cup { rec.key }])
      [] rec.type = PSBT_IN_SCRIPTSIG ->
           IF ~inp.final_script_sig.empty
           THEN Thrown("Duplicate Key, input final scriptSig already provided", inp)
           ELSE Read([inp EXCEPT !.final_script_sig = rec.val])
      [] rec.type = PSBT_IN_SCRIPTWITNESS ->
           IF ~inp.final_script_witness.empty
           THEN Thrown("Duplicate Key, input final scriptWitness already provided", inp)
           ELSE Read([inp EXCEPT !.final_script_witness = rec.val])
      [] OTHER ->
           IF << rec.type, rec.key >> \in inp.unknown
           THEN Thrown("Duplicate Key, key for unknown value already provided", inp)
           ELSE Read([inp EXCEPT !.unknown = @ \cup { << rec.type, rec.key >> }])

\* sign.h:433-489: the switch of PSBTOutput::Unserialize
OutputRecord(out, rec) ==
    CASE rec.type = PSBT_OUT_REDEEMSCRIPT ->
           IF ~out.redeem_script.empty
           THEN Thrown("Duplicate Key, output redeemScript already provided", out)
           ELSE Read([out EXCEPT !.redeem_script = rec.val])
      [] rec.type = PSBT_OUT_WITNESSSCRIPT ->
           IF ~out.witness_script.empty
           THEN Thrown("Duplicate Key, output witnessScript already provided", out)
           ELSE Read([out EXCEPT !.witness_script = rec.val])
      [] rec.type = PSBT_OUT_BIP32_DERIVATION ->
           IF PubKeyError(rec, SizeOfPathKey) # ""
           THEN Thrown(PubKeyError(rec, SizeOfPathKey), out)
           ELSE IF rec.key \in out.hd_keypaths
           THEN Thrown("Duplicate Key, output pubkey derivation path already provided", out)
           ELSE Read([out EXCEPT !.hd_keypaths = @ \cup { rec.key }])
      [] OTHER ->
           IF << rec.type, rec.key >> \in out.unknown
           THEN Thrown("Duplicate Key, key for unknown value already provided", out)
           ELSE Read([out EXCEPT !.unknown = @ \cup { << rec.type, rec.key >> }])

\* CTransaction::IsNull (primitives/transaction.h): no inputs and no outputs
IsNull(t) == t.vin = 0 /\ t.vout = 0

\* sign.h:588-611: the switch of the global map; the object is the pair of
\* tx and unknown
GlobalRecord(glob, rec) ==
    CASE rec.type = PSBT_GLOBAL_UNSIGNED_TX ->
           IF ~IsNull(glob.tx)
           THEN Thrown("Duplicate Key, unsigned tx already provided", glob)
           ELSE IF rec.val.signed
           THEN Thrown("Unsigned tx does not have empty scriptSigs and scriptWitnesses.",
                       [glob EXCEPT !.tx = rec.val])
           ELSE Read([glob EXCEPT !.tx = rec.val])
      [] OTHER ->
           IF << rec.type, rec.key >> \in glob.unknown
           THEN Thrown("Duplicate Key, key for unknown value already provided", glob)
           ELSE Read([glob EXCEPT !.unknown = @ \cup { << rec.type, rec.key >> }])

\* the loop condition and the separator test of the three read loops
\* (sign.h:220-227, 414-421, 568-575)
AtRecord == stream # << >> /\ Head(stream) # PSBT_SEPARATOR
AtSeparator == stream # << >> /\ Head(stream) = PSBT_SEPARATOR
\* the stream once a loop is left: a separator is consumed, the end is not
AfterMap == IF AtSeparator THEN Tail(stream) ELSE stream
\* the number of maps left by the end of the stream, with this one
CountEnd == IF AtSeparator THEN unterminated ELSE unterminated + 1

\* an exception leaves the call
Throw(msg) ==
    /\ error' = msg
    /\ pc' = "failed"

\* a caller deserialises one input map from a stream
InputCall ==
    /\ pc = "call_input"
    /\ input' = PartiallySignedInput
    /\ keys_read' = << >>
    /\ pc' = "in_map"
    /\ UNCHANGED << coinVars, stream, magic, caller, tx, unknown, inputs, outputs,
                    output, error, tx_records, unterminated >>

\* sign.h:220-354: one record of an input map
InputMapRecord ==
    /\ pc = "in_map"
    /\ AtRecord
    /\ stream' = Tail(stream)
    /\ IF Head(stream) = Truncated
       THEN /\ Throw("CDataStream::read(): end of data")
            /\ UNCHANGED << input, keys_read >>
       ELSE LET r == InputRecord(input, Head(stream))
            IN  /\ input' = r.object
                /\ IF r.error # ""
                   THEN /\ Throw(r.error)
                        /\ UNCHANGED keys_read
                   ELSE /\ keys_read' = Append(keys_read,
                                               << Head(stream).type, Head(stream).key >>)
                        /\ UNCHANGED << pc, error >>
    /\ UNCHANGED << coinVars, magic, caller, tx, unknown, inputs, outputs, output,
                    tx_records, unterminated >>

\* sign.h:220, 226 and 625-632: the input map ends at a separator or with
\* the stream; inside a PSBT the input is stored and its non-witness utxo is
\* compared with the outpoint
InputMapReturn ==
    /\ pc = "in_map"
    /\ ~AtRecord
    /\ stream' = AfterMap
    /\ unterminated' = CountEnd
    /\ IF caller = "psbt"
       THEN /\ inputs' = Append(inputs, input)
            /\ IF /\ input.non_witness_utxo # << >>
                  /\ input.non_witness_utxo[1].hash # tx.prevout
               THEN Throw("Non-witness UTXO does not match outpoint hash")
               ELSE /\ pc' = "inputs"
                    /\ UNCHANGED error
       ELSE /\ pc' = "input_returned"
            /\ UNCHANGED << inputs, error >>
    /\ UNCHANGED << coinVars, magic, caller, tx, unknown, outputs, input, output,
                    keys_read, tx_records >>

\* sign.h:559-565: the magic bytes
PsbtCall ==
    /\ pc = "call_psbt"
    /\ IF magic # PSBT_MAGIC_BYTES
       THEN Throw("Invalid PSBT magic bytes")
       ELSE /\ pc' = "global"
            /\ UNCHANGED error
    /\ UNCHANGED << coinVars, stream, magic, caller, tx, unknown, inputs, outputs,
                    input, output, keys_read, tx_records, unterminated >>

\* sign.h:568-613: one record of the global map
PsbtGlobalRecord ==
    /\ pc = "global"
    /\ AtRecord
    /\ stream' = Tail(stream)
    /\ IF Head(stream) = Truncated
       THEN /\ Throw("CDataStream::read(): end of data")
            /\ UNCHANGED << tx, unknown, tx_records >>
       ELSE LET r == GlobalRecord([tx |-> tx, unknown |-> unknown], Head(stream))
            IN  /\ tx' = r.object.tx
                /\ unknown' = r.object.unknown
                /\ IF r.error # ""
                   THEN /\ Throw(r.error)
                        /\ UNCHANGED tx_records
                   ELSE /\ tx_records' =
                               IF Head(stream).type = PSBT_GLOBAL_UNSIGNED_TX
                               THEN tx_records + 1 ELSE tx_records
                        /\ UNCHANGED << pc, error >>
    /\ UNCHANGED << coinVars, magic, caller, inputs, outputs, input, output,
                    keys_read, unterminated >>

\* sign.h:568, 574 and 616-622: the global map ends; an unsigned
\* transaction must have been read
PsbtGlobalDone ==
    /\ pc = "global"
    /\ ~AtRecord
    /\ stream' = AfterMap
    /\ unterminated' = CountEnd
    /\ IF IsNull(tx)
       THEN Throw("No unsigned transcation was provided")
       ELSE /\ pc' = "inputs"
            /\ UNCHANGED error
    /\ UNCHANGED << coinVars, magic, caller, tx, unknown, inputs, outputs, input,
                    output, keys_read, tx_records >>

\* sign.h:623-637: the head of the loop over the inputs, and the comparison
\* of the number of input maps with the transaction
PsbtInputs ==
    /\ pc = "inputs"
    /\ IF stream # << >> /\ Len(inputs) < tx.vin
       THEN /\ input' = PartiallySignedInput
            /\ keys_read' = << >>
            /\ pc' = "in_map"
            /\ UNCHANGED error
       ELSE /\ IF Len(inputs) # tx.vin
               THEN Throw("Inputs provided does not match the number of inputs in transaction.")
               ELSE /\ pc' = "outputs"
                    /\ UNCHANGED error
            /\ UNCHANGED << input, keys_read >>
    /\ UNCHANGED << coinVars, stream, magic, caller, tx, unknown, inputs, outputs,
                    output, tx_records, unterminated >>

\* sign.h:640-650: the head of the loop over the outputs, the comparison of
\* the number of output maps with the transaction, and the return
PsbtOutputs ==
    /\ pc = "outputs"
    /\ IF stream # << >> /\ Len(outputs) < tx.vout
       THEN /\ output' = PSBTOutput
            /\ keys_read' = << >>
            /\ pc' = "out_map"
            /\ UNCHANGED error
       ELSE /\ IF Len(outputs) # tx.vout
               THEN Throw("Outputs provided does not match the number of outputs in transaction.")
               ELSE /\ pc' = "psbt_returned"
                    /\ UNCHANGED error
            /\ UNCHANGED << output, keys_read >>
    /\ UNCHANGED << coinVars, stream, magic, caller, tx, unknown, inputs, outputs,
                    input, tx_records, unterminated >>

\* sign.h:414-490: one record of an output map
OutputMapRecord ==
    /\ pc = "out_map"
    /\ AtRecord
    /\ stream' = Tail(stream)
    /\ IF Head(stream) = Truncated
       THEN /\ Throw("CDataStream::read(): end of data")
            /\ UNCHANGED << output, keys_read >>
       ELSE LET r == OutputRecord(output, Head(stream))
            IN  /\ output' = r.object
                /\ IF r.error # ""
                   THEN /\ Throw(r.error)
                        /\ UNCHANGED keys_read
                   ELSE /\ keys_read' = Append(keys_read,
                                               << Head(stream).type, Head(stream).key >>)
                        /\ UNCHANGED << pc, error >>
    /\ UNCHANGED << coinVars, magic, caller, tx, unknown, inputs, outputs, input,
                    tx_records, unterminated >>

\* sign.h:414, 420 and 643-645: the output map ends and is stored
OutputMapReturn ==
    /\ pc = "out_map"
    /\ ~AtRecord
    /\ stream' = AfterMap
    /\ unterminated' = CountEnd
    /\ outputs' = Append(outputs, output)
    /\ pc' = "outputs"
    /\ UNCHANGED << coinVars, magic, caller, tx, unknown, inputs, input, output,
                    error, keys_read, tx_records >>

Next ==
    \/ BnBEmpty
    \/ BnBEnter
    \/ BnBTriesExhausted
    \/ BnBOvershoot
    \/ BnBWastePrune
    \/ BnBInRange
    \/ BnBLeaf
    \/ BnBUnreachable
    \/ BnBLookaheadPrune
    \/ BnBInclude
    \/ BnBNoSolution
    \/ BnBSolution
    \/ KnapsackEnter
    \/ KnapsackExact
    \/ KnapsackAllLower
    \/ KnapsackFail
    \/ KnapsackLowestLarger
    \/ KnapsackApproximate
    \/ ApproximateRepetition
    \/ KnapsackSecondRun
    \/ KnapsackReturnLarger
    \/ KnapsackReturnSubset
    \/ InputCall
    \/ InputMapRecord
    \/ InputMapReturn
    \/ PsbtCall
    \/ PsbtGlobalRecord
    \/ PsbtGlobalDone
    \/ PsbtInputs
    \/ PsbtOutputs
    \/ OutputMapRecord
    \/ OutputMapReturn

Spec == Init /\ [][Next]_vars

\* the code runs to its return: every enabled step is eventually taken
FairSpec == Spec /\ WF_vars(Next)

\* ------------------------------------------------------------------------
\* Vocabulary of the properties
\* ------------------------------------------------------------------------
BnBReturned == pc = "bnb_returned"
KnapsackReturned == pc = "knapsack_returned"
Returned == BnBReturned \/ KnapsackReturned
Success == ret = "true"
Failure == ret = "false"

\* The lower end of the acceptance range.  SelectCoinsBnB has no parameter
\* for fees that are not attributable to inputs: the caller passes the
\* amount to reach, fixed fees included, as target_value.
actual_target == target_value

Positions == 1..Len(utxo_pool)

NonNegativePool == \A i \in Positions : utxo_pool[i].nValue >= 0

\* what the caller is asked to pass: coins of positive effective value
PositivePool == \A i \in Positions : utxo_pool[i].nValue > 0

RECURSIVE SumAt(_, _)
\* sum of Amount(utxo_pool[i], field) over the positions i of S
SumAt(S, field) ==
    IF S = {} THEN 0
    ELSE LET i == CHOOSE x \in S : TRUE
         IN  Amount(utxo_pool[i], field) + SumAt(S \ {i}, field)

\* a set of pool positions whose effective values sum into the range
InAcceptanceRange(S) ==
    /\ SumAt(S, "nValue") >= actual_target
    /\ SumAt(S, "nValue") <= actual_target + cost_of_change

\* the waste of a set of pool positions
Waste(S) == SumAt(S, "waste") + (SumAt(S, "nValue") - actual_target)

\* the loop of SelectCoinsBnB was left because the tries ran out
BudgetExhausted == BnBReturned /\ utxo_pool # << >> /\ ~done /\ remaining_tries <= 0
\* ... because the walk backwards went past position 0
TreeExhausted == BnBReturned /\ utxo_pool # << >> /\ done

\* ------------------------------------------------------------------------
\* C1: whenever SelectCoinsBnB returns success, the effective values of the
\* coins of out_set sum to at least actual_target and to at most
\* actual_target + cost_of_change, whichever way the loop ended.
\* ------------------------------------------------------------------------
C1_SuccessInRange ==
    (BnBReturned /\ Success /\ NonNegativePool)
        => /\ SumSet(out_set, "nValue") >= actual_target
           /\ SumSet(out_set, "nValue") <= actual_target + cost_of_change

\* a success after the tries ran out, at the upper end of a proper range
C1_Witness ==
    /\ BudgetExhausted /\ Success /\ NonNegativePool
    /\ cost_of_change > 0
    /\ SumSet(out_set, "nValue") = actual_target + cost_of_change

\* ------------------------------------------------------------------------
\* C2: when the tries did not run out, the selection SelectCoinsBnB returns
\* has the least waste of all the subsets of the pool whose effective
\* values sum into the acceptance range, for every pool.
\* ------------------------------------------------------------------------
C2_MinimumWaste ==
    (TreeExhausted /\ Success /\ PositivePool)
        => \A S \in SUBSET Positions :
               InAcceptanceRange(S) => Waste(S) >= Waste(Chosen(best_selection))

\* ------------------------------------------------------------------------
\* C3 (as stated): of in-range selections of equal waste the one found
\* first is returned: a later selection of the same waste never replaces
\* the recorded best, and the pool [5,3,2] with target 5 returns {5}.
\* ------------------------------------------------------------------------
Scenario532 ==
    /\ Len(utxo_pool) = 3
    /\ utxo_pool[1].nValue = 5 /\ utxo_pool[2].nValue = 3 /\ utxo_pool[3].nValue = 2
    /\ target_value = 5 /\ cost_of_change = 0

C3_FirstFoundWins ==
    [][(pc = "loop" /\ HasSolution /\ best_waste' = best_waste)
          => best_selection' = best_selection]_vars

\* C3 (amended): of in-range selections of equal waste the one found last
\* is returned: every in-range selection that is visited and whose waste is
\* at most best_waste, equal waste included, replaces the recorded best;
\* the pool [5,3,2] with target 5 returns {3,2}.
C3_LastFoundWins ==
    /\ [][(pc = "loop" /\ ~TriesOut /\ ~Overshoot /\ ~MoreWasteful /\ InRange
             /\ curr_waste + (value_ret - target_value) <= best_waste)
            => /\ best_selection' = selection
               /\ best_waste' = curr_waste + (value_ret - target_value)]_vars
    /\ [](BnBReturned /\ Scenario532
            => /\ Success
               /\ { c.nValue : c \in out_set } = {3, 2}
               /\ Cardinality(out_set) = 2)

\* the pool [5,3,2] returned {3,2}, after {5} had been recorded with the
\* same waste
C3_Witness ==
    /\ BnBReturned /\ Scenario532 /\ Success
    /\ Chosen(best_selection) = {2, 3}
    /\ best_waste = 0

\* ------------------------------------------------------------------------
\* C4 (as stated): on success value_ret is the sum of the gross values
\* (effective value plus fee) of the chosen coins.
\* ------------------------------------------------------------------------
C4_GrossValue ==
    (BnBReturned /\ Success) => value_ret = SumSet(out_set, "gross")

ScenarioSingle ==
    /\ Len(utxo_pool) = 1
    /\ utxo_pool[1].nValue = 9 /\ utxo_pool[1].fee = 1
    /\ target_value = 9 /\ cost_of_change = 0

\* C4 (amended): on success value_ret is the sum of the effective values
\* that were used for the range test (txout.nValue), which is the sum of
\* the gross values less the fees the call added to fee_ret; the coin of
\* gross value 10 and fee 1 with target 9 succeeds with value_ret = 9.
C4_EffectiveValue ==
    (BnBReturned /\ Success)
        => /\ value_ret = SumSet(out_set, "gross") - (fee_ret - FeeIn)
           /\ value_ret = SumAt(Chosen(best_selection), "nValue")
           /\ ScenarioSingle => value_ret = 9

\* a success whose coins carry fees
C4_Witness ==
    /\ BnBReturned /\ Success
    /\ SumSet(out_set, "fee") > 0
    /\ Cardinality(out_set) >= 2

\* ------------------------------------------------------------------------
\* C5: on every successful return of SelectCoinsBnB and of KnapsackSolver,
\* value_ret is the sum of the value fields (txout.nValue) of exactly the
\* coins of out_set; the coins of a pool have distinct outpoints.
\* ------------------------------------------------------------------------
C5_ValueRetIsSumOfOutSet ==
    (Returned /\ Success) => value_ret = SumSet(out_set, "nValue")

\* KnapsackSolver returned a proper subset of several lower coins that the
\* approximation found
C5_Witness ==
    /\ KnapsackReturned /\ Success
    /\ nRep > 0 /\ ~PreferLarger
    /\ Cardinality(out_set) >= 2
    /\ Cardinality(out_set) < Len(vValue)
    /\ value_ret > target_value

\* ------------------------------------------------------------------------
\* C6: every failing return of SelectCoinsBnB and of KnapsackSolver leaves
\* out_set empty and value_ret 0, also when the tries of SelectCoinsBnB run
\* out while coins are included in the running selection.
\* ------------------------------------------------------------------------
C6_FailureClearsOutputs ==
    (Returned /\ Failure) => (out_set = {} /\ value_ret = 0)

\* ------------------------------------------------------------------------
\* C7: if SelectCoinsBnB fails after the walk backwards went past position
\* 0, no subset of a pool of non-negative effective values sums into
\* [actual_target, actual_target + cost_of_change].
\* ------------------------------------------------------------------------
C7_ExhaustedTreeHasNoSolution ==
    (TreeExhausted /\ Failure /\ NonNegativePool)
        => \A S \in SUBSET Positions : ~InAcceptanceRange(S)

\* a failed full search of a pool that holds more than the whole range
C7_Witness ==
    /\ TreeExhausted /\ Failure /\ NonNegativePool
    /\ SumAt(Positions, "nValue") > actual_target + cost_of_change
    /\ Len(utxo_pool) = MaxPool

\* ------------------------------------------------------------------------
\* C8: every call of SelectCoinsBnB terminates and its loop makes at most
\* TOTAL_TRIES iterations: remaining_tries stays within 0..TOTAL_TRIES,
\* every iteration that advances or backtracks takes exactly one try, the
\* loop is left when no try remains or when the walk backwards went past
\* position 0, and the call then returns.
\* ------------------------------------------------------------------------
C8_TerminatesWithinTries ==
    /\ [](remaining_tries \in 0..TOTAL_TRIES)
    /\ [][(pc = "loop" /\ pc' \in {"loop", "loop_done"})
            => remaining_tries' = remaining_tries - 1]_vars
    /\ [][(pc = "loop" /\ remaining_tries = 0) => pc' = "break_tries"]_vars
    /\ [][(pc = "loop" /\ done') => pc' = "loop_done"]_vars
    /\ (pc = "loop") ~> BnBReturned

\* the loop was left after exactly TOTAL_TRIES iterations
C8_Witness ==
    /\ pc = "break_tries"
    /\ remaining_tries = 0
    /\ depth > 0

\* ------------------------------------------------------------------------
\* C9: SelectCoinsBnB returns success exactly when an in-range selection
\* was recorded as best_selection, whether the loop ended because the tree
\* or the tries were exhausted, and what it returns is that selection.
\* ------------------------------------------------------------------------
C9_SuccessIffRecorded ==
    BnBReturned
        => /\ Success <=> ~(best_selection = << >>)
           /\ Success => /\ InAcceptanceRange(Chosen(best_selection))
                         /\ out_set = { utxo_pool[i] : i \in Chosen(best_selection) }

\* the tries ran out after a selection had been recorded
C9_Witness ==
    /\ BudgetExhausted /\ Success
    /\ Chosen(selection) # {}
    /\ Chosen(selection) # Chosen(best_selection)

\* ------------------------------------------------------------------------
\* C10: SelectCoinsBnB fails whenever the effective values of the whole
\* pool sum to less than actual_target; for a non-empty pool this is found
\* at depth 0 in the first iteration, before any coin is included.
\* ------------------------------------------------------------------------
C10_UnreachableFailsAtOnce ==
    (BnBReturned /\ SumSeq(utxo_pool, 1, Len(utxo_pool)) < actual_target)
        => /\ Failure
           /\ utxo_pool # << >>
                => /\ depth = 0 /\ ~done
                   /\ remaining_tries = TOTAL_TRIES
                   /\ \A i \in Positions :
                          ~selection[i].first /\ ~selection[i].second

\* a pool of several coins that falls short of the target by one unit
C10_Witness ==
    /\ BnBReturned /\ Failure
    /\ Len(utxo_pool) >= 2 /\ PositivePool
    /\ SumSeq(utxo_pool, 1, Len(utxo_pool)) = actual_target - 1

\* ------------------------------------------------------------------------
\* Vocabulary of the KnapsackSolver properties, from the pool alone
\* ------------------------------------------------------------------------
\* the positions of the coins of exactly the target value
ExactPositions == { i \in Positions : utxo_pool[i].nValue = target_value }
\* the positions of the other coins below target_value + MIN_CHANGE
LowerPositions ==
    { i \in Positions : /\ utxo_pool[i].nValue # target_value
                        /\ utxo_pool[i].nValue < target_value + MIN_CHANGE }
\* the positions of the other coins of at least target_value + MIN_CHANGE
LargerPositions ==
    { i \in Positions : /\ utxo_pool[i].nValue # target_value
                        /\ utxo_pool[i].nValue >= target_value + MIN_CHANGE }
\* the subset approximation was run
Approximation == KnapsackReturned /\ nTargetValue # 0

\* ------------------------------------------------------------------------
\* C11: whenever KnapsackSolver returns success, the coins of out_set, and
\* value_ret, sum to at least target_value, for every shuffle and every
\* outcome of the random source.
\* ------------------------------------------------------------------------
C11_KnapsackCoversTarget ==
    (KnapsackReturned /\ Success)
        => /\ SumSet(out_set, "nValue") >= target_value
           /\ value_ret >= target_value

\* a subset found by the approximation that is above the target
C11_Witness ==
    /\ Approximation /\ Success /\ ~PreferLarger
    /\ value_ret > target_value
    /\ value_ret < nTotalLower

\* ------------------------------------------------------------------------
\* C12: KnapsackSolver returns success exactly when the values of the whole
\* pool sum to at least target_value, whatever the shuffle and the random
\* choices were.
\* ------------------------------------------------------------------------
C12_SuccessIffEnough ==
    KnapsackReturned
        => (Success <=> SumAt(Positions, "nValue") >= target_value)

\* a failure of a pool of several coins that is one unit short
C12_Witness ==
    /\ KnapsackReturned /\ Failure
    /\ Len(utxo_pool) >= 2
    /\ SumAt(Positions, "nValue") = target_value - 1

\* ------------------------------------------------------------------------
\* C13: if a coin of the pool has exactly the target value, KnapsackSolver
\* returns success with exactly one coin, of that value, and value_ret =
\* target_value, without running the subset approximation.
\* ------------------------------------------------------------------------
C13_ExactCoinAlone ==
    (KnapsackReturned /\ ExactPositions # {})
        => /\ Success
           /\ \E i \in ExactPositions : out_set = {utxo_pool[i]}
           /\ value_ret = target_value
           /\ ~Approximation /\ nRep = 0 /\ vfBest = << >>

\* the exact coin came last in the shuffled pool, after lower and larger coins
C13_Witness ==
    /\ KnapsackReturned
    /\ Len(utxo_pool) = 3
    /\ ExactPositions = {3}
    /\ LowerPositions # {} /\ LargerPositions # {}

\* ------------------------------------------------------------------------
\* C14: in KnapsackSolver, when no coin equals target_value and the coins
\* below target_value + MIN_CHANGE sum to less than target_value, the
\* result is the single coin of smallest value among the larger ones, with
\* value_ret its value, and a failure if there is no larger coin; the pool
\* [1,1,10] with target 5 returns {10} and value_ret 10.
\* ------------------------------------------------------------------------
Scenario1110 ==
    /\ Len(pool_in) = 3
    /\ pool_in[1].nValue = 1 /\ pool_in[2].nValue = 1 /\ pool_in[3].nValue = 10
    /\ target_value = 5

C14_LowestLargerOrFail ==
    (KnapsackReturned /\ ExactPositions = {}
        /\ SumAt(LowerPositions, "nValue") < target_value)
        => /\ ~Approximation
           /\ IF LargerPositions = {}
              THEN Failure /\ out_set = {} /\ value_ret = 0
              ELSE /\ Success
                   /\ \E i \in LargerPositions :
                        /\ out_set = {utxo_pool[i]}
                        /\ value_ret = utxo_pool[i].nValue
                        /\ \A j \in LargerPositions :
                               utxo_pool[i].nValue <= utxo_pool[j].nValue
           /\ Scenario1110 => (value_ret = 10 /\ out_set = {pool_in[3]})

\* the lowest of two different larger coins came after the other one and
\* after a lower coin
C14_Witness ==
    /\ KnapsackReturned /\ ExactPositions = {}
    /\ SumAt(LowerPositions, "nValue") < target_value
    /\ LowerPositions # {}
    /\ \E i, j \in LargerPositions :
           i < j /\ utxo_pool[i].nValue > utxo_pool[j].nValue

\* ------------------------------------------------------------------------
\* C15: in KnapsackSolver, when no coin equals target_value and the coins
\* below target_value + MIN_CHANGE sum to exactly target_value, the result
\* is all of those coins and value_ret = target_value, even if there is a
\* larger coin.
\* ------------------------------------------------------------------------
C15_AllLowerCoins ==
    (KnapsackReturned /\ ExactPositions = {}
        /\ SumAt(LowerPositions, "nValue") = target_value)
        => /\ Success
           /\ out_set = { utxo_pool[i] : i \in LowerPositions }
           /\ value_ret = target_value
           /\ ~Approximation

\* several lower coins were returned although there is a larger coin
C15_Witness ==
    /\ KnapsackReturned /\ ExactPositions = {}
    /\ SumAt(LowerPositions, "nValue") = target_value
    /\ Cardinality(LowerPositions) >= 2
    /\ LargerPositions # {}
    /\ Cardinality(out_set) = Cardinality(LowerPositions)

\* ------------------------------------------------------------------------
\* C16: after the subset approximation gave (vfBest, nBest), the result of
\* KnapsackSolver is coinLowestLarger alone if there is one and either
\* (nBest # target_value and nBest < target_value + MIN_CHANGE) or its
\* value is <= nBest; otherwise it is exactly the coins of vValue marked
\* in vfBest, with value_ret = nBest.
\* ------------------------------------------------------------------------
C16_LargerOrBestSubset ==
    Approximation
        => /\ Success
           /\ (coinLowestLarger = << >>) <=> (LargerPositions = {})
           /\ IF /\ LargerPositions # {}
                 /\ \/ (nBest # target_value /\ nBest < target_value + MIN_CHANGE)
                    \/ coinLowestLarger[1].nValue <= nBest
              THEN /\ out_set = {coinLowestLarger[1]}
                   /\ value_ret = coinLowestLarger[1].nValue
                   /\ \E i \in LargerPositions : utxo_pool[i] = coinLowestLarger[1]
              ELSE /\ out_set = { vValue[i] : i \in { j \in 1..Len(vValue) : vfBest[j] } }
                   /\ value_ret = nBest

\* the larger coin was returned because it is not above a best sum that
\* leaves enough change
C16_Witness ==
    /\ Approximation
    /\ ~(coinLowestLarger = << >>)
    /\ nBest >= target_value + MIN_CHANGE
    /\ coinLowestLarger[1].nValue = nBest
    /\ out_set = {coinLowestLarger[1]}

\* ------------------------------------------------------------------------
\* C17: for both algorithms every coin of out_set is a coin of the pool
\* that was passed in, and out_set and value_ret are made of a set of pool
\* positions, each taken once.
\* ------------------------------------------------------------------------
C17_OutSetFromPool ==
    Returned
        => /\ out_set \subseteq { pool_in[i] : i \in 1..Len(pool_in) }
           /\ \E S \in SUBSET Positions :
                 /\ out_set = { utxo_pool[i] : i \in S }
                 /\ Cardinality(out_set) = Cardinality(S)
                 /\ Success => value_ret = SumAt(S, "nValue")

\* SelectCoinsBnB returned two coins that differ in their outpoints only
C17_Witness ==
    /\ BnBReturned /\ Success
    /\ \E c, d \in out_set :
          /\ c # d
          /\ c.nValue = d.nValue /\ c.fee = d.fee
          /\ c.long_term_fee = d.long_term_fee

\* ------------------------------------------------------------------------
\* C19: every in-range selection that an iteration of SelectCoinsBnB
\* examines has a waste that is at least the waste of the selection
\* returned in the end: best_waste never increases during the search, it is
\* at most the waste of each in-range selection once that selection has
\* been examined, and at the end it is the waste of best_selection, which
\* is the selection returned.
\* ------------------------------------------------------------------------
C19_VisitedNotBelowBest ==
    /\ [][pc # "call_bnb" => best_waste' <= best_waste]_vars
    /\ [][(pc = "loop" /\ ~TriesOut /\ InAcceptanceRange(Chosen(selection)))
             => Waste(Chosen(selection)) >= best_waste']_vars
    /\ []((pc = "loop" \/ AfterLoop \/ BnBReturned) /\ HasSolution
             => best_waste = Waste(Chosen(best_selection)))
    /\ []((BnBReturned /\ Success)
             => /\ out_set = { utxo_pool[i] : i \in Chosen(best_selection) }
                /\ SumSet(out_set, "waste")
                      + (SumSet(out_set, "nValue") - actual_target) = best_waste)

\* an in-range selection reaches the comparison of line 87 with more waste
\* than the recorded best
C19_Witness ==
    /\ pc = "loop" /\ HasSolution
    /\ ~TriesOut /\ ~Overshoot /\ ~MoreWasteful
    /\ InAcceptanceRange(Chosen(selection))
    /\ Waste(Chosen(selection)) > best_waste

\* ------------------------------------------------------------------------
\* C20: SelectCoinsBnB backtracks on curr_waste > best_waste only when the
\* first coin of the sorted pool has fee - long_term_fee > 0; when it has
\* not, a branch whose running waste exceeds best_waste is searched on.
\* ------------------------------------------------------------------------
C20_WastePruneGuarded ==
    [][BnBWastePrune => utxo_pool[1].fee - utxo_pool[1].long_term_fee > 0]_vars

\* ------------------------------------------------------------------------
\* C21: when SelectCoinsBnB advances at depth > 0 and the coin at depth - 1
\* is excluded and has the same effective value and the same fee as the
\* coin at depth, the coin at depth is not included: it stays excluded, its
\* value is subtracted from lookahead and depth is incremented.
\* ------------------------------------------------------------------------
Advancing ==
    /\ pc = "loop"
    /\ ~TriesOut /\ ~Overshoot /\ ~MoreWasteful /\ ~InRange /\ ~AtLeaf
    /\ ~CannotReach

EquivalentToExcluded ==
    /\ depth > 0
    /\ ~selection[depth].first
    /\ utxo_pool[depth].nValue = utxo_pool[depth + 1].nValue
    /\ utxo_pool[depth].fee = utxo_pool[depth + 1].fee

C21_EquivalentCoinSkipped ==
    [][(Advancing /\ EquivalentToExcluded)
          => /\ ~selection'[depth + 1].first
             /\ value_ret' = value_ret
             /\ lookahead' = lookahead - utxo_pool[depth + 1].nValue
             /\ depth' = depth + 1]_vars

\* ------------------------------------------------------------------------
\* C22: a call of SelectCoinsBnB with a pool that holds a coin of negative
\* effective value, and a target the other coins can reach, ends in the
\* failed assertion of line 103 and never returns a result.
\* ------------------------------------------------------------------------
NegativePositions == { i \in Positions : utxo_pool[i].nValue < 0 }

C22_NegativeCoinAsserts ==
    (/\ NegativePositions # {}
     /\ SumAt(Positions \ NegativePositions, "nValue") >= target_value)
        => ~BnBReturned

\* ------------------------------------------------------------------------
\* C23: at the head of every iteration of the loop of SelectCoinsBnB,
\* lookahead is the sum of the effective values of the coins at positions
\* >= depth; an advance and a backtrack over any number of positions keep
\* it so.
\* ------------------------------------------------------------------------
C23_LookaheadIsUndecidedSum ==
    pc = "loop"
        => /\ depth \in 0..Len(utxo_pool)
           /\ lookahead = SumSeq(utxo_pool, depth + 1, Len(utxo_pool))

\* the omission branch of the first coin is entered after more than the two
\* steps of including and omitting it: the backtrack walked back over the
\* second coin
C23_Witness ==
    /\ pc = "loop"
    /\ Len(utxo_pool) = 3
    /\ depth = 1 /\ selection[1].second
    /\ remaining_tries < TOTAL_TRIES - 2
    /\ lookahead > 0

\* ------------------------------------------------------------------------
\* C24: at the head of every iteration of the loop of SelectCoinsBnB,
\* value_ret is the sum of the effective values of the positions whose
\* inclusion bit is set and curr_waste the sum of fee - long_term_fee over
\* those positions; the excess over the target of an acceptance check is
\* not in curr_waste in any later iteration.
\* ------------------------------------------------------------------------
C24_RunningSums ==
    (pc = "loop" \/ AfterLoop)
        => /\ value_ret = SumAt(Chosen(selection), "nValue")
           /\ curr_waste = SumAt(Chosen(selection), "waste")

\* an iteration with coins included, after a selection was accepted with an
\* excess over the target
C24_Witness ==
    /\ pc = "loop" /\ HasSolution
    /\ Waste(Chosen(best_selection)) > SumAt(Chosen(best_selection), "waste")
    /\ Chosen(selection) # {}
    /\ curr_waste # 0

\* ------------------------------------------------------------------------
\* C25: a backtrack of SelectCoinsBnB that does not end the search walks
\* back over the trailing positions whose omission branch was taken and
\* flips one position, the deepest included one below depth: it becomes
\* excluded, its value and its fee - long_term_fee leave the running sums,
\* depth becomes that position + 1 and the shallower positions keep their
\* bits.
\* ------------------------------------------------------------------------
C25_BacktrackFlipsDeepestIncluded ==
    [][(pc = "loop" /\ pc' = "loop" /\ ~Advancing)
          => LET p == depth'
             IN  /\ p \in 1..depth
                 /\ selection[p].first /\ ~selection[p].second
                 /\ \A q \in (p + 1)..depth :
                        ~selection[q].first /\ selection[q].second
                 /\ ~selection'[p].first /\ selection'[p].second
                 /\ \A q \in (p + 1)..Len(utxo_pool) :
                        ~selection'[q].first /\ ~selection'[q].second
                 /\ \A q \in 1..(p - 1) : selection'[q] = selection[q]
                 /\ value_ret' = value_ret - utxo_pool[p].nValue
                 /\ curr_waste' = curr_waste
                        - (utxo_pool[p].fee - utxo_pool[p].long_term_fee)
                 /\ remaining_tries' = remaining_tries - 1]_vars

\* the second coin was flipped by a backtrack that walked back over the
\* third
C25_Witness ==
    /\ pc = "loop"
    /\ Len(utxo_pool) = 3
    /\ depth = 2
    /\ selection[1].first /\ selection[2].second
    /\ remaining_tries < TOTAL_TRIES - 3

\* ------------------------------------------------------------------------
\* C26: SelectCoinsBnB searches the tree in inclusion-first order: for each
\* position and each assignment of the positions before it, the node that
\* includes the coin is visited before the node that omits it, the omission
\* branch is entered once, and once it is entered the inclusion node of
\* that prefix is not visited again.
\* ------------------------------------------------------------------------
RECURSIVE Power2(_)
Power2(k) == IF k <= 0 THEN 1 ELSE 2 * Power2(k - 1)

RECURSIVE NodeIndex(_, _)
\* the place of the node (sel[1..d]) in the inclusion-first preorder of the
\* tree over the pool: an omitted position comes after the whole subtree
\* of its inclusion
NodeIndex(sel, d) ==
    IF d <= 0 THEN 0
    ELSE NodeIndex(sel, d - 1) + 1
         + (IF sel[d].first THEN 0 ELSE Power2(Len(sel) - d + 1) - 1)

C26_InclusionFirstOrder ==
    /\ [][(pc = "loop" /\ pc' = "loop")
             => NodeIndex(selection', depth') > NodeIndex(selection, depth)]_vars
    /\ [](pc = "loop"
             => \A q \in Positions :
                   IF q <= depth
                   THEN selection[q].first # selection[q].second
                   ELSE ~selection[q].first /\ ~selection[q].second)
    /\ [][pc = "loop"
             => \A q \in Positions :
                   /\ (~selection[q].second /\ selection'[q].second)
                         => /\ selection[q].first
                            /\ \A r \in 1..(q - 1) : selection'[r] = selection[r]
                   /\ (~selection[q].first /\ selection'[q].first)
                         => /\ ~selection[q].second
                            /\ q = depth + 1]_vars

\* the second coin is included in the omission branch of the first, after
\* it was included and omitted in the inclusion branch of the first
C26_Witness ==
    /\ pc = "loop"
    /\ Len(utxo_pool) = 3
    /\ depth = 2
    /\ selection[1].second /\ selection[2].first
    /\ remaining_tries < TOTAL_TRIES - 4

\* ------------------------------------------------------------------------
\* C27: a call of SelectCoinsBnB changes the pool only by reordering it:
\* after the call the pool is a permutation of the pool passed in, sorted
\* in descending order of effective value, with every coin as it was; after
\* KnapsackSolver the pool is a permutation of its input too.
\* ------------------------------------------------------------------------
Occurrences(c, s) == Cardinality({ i \in 1..Len(s) : s[i] = c })

IsPermutationOf(a, b) ==
    /\ Len(a) = Len(b)
    /\ \A i \in 1..Len(a) : Occurrences(a[i], a) = Occurrences(a[i], b)

C27_PoolOnlyReordered ==
    Returned
        => /\ IsPermutationOf(utxo_pool, pool_in)
           /\ BnBReturned
                 => \A i, j \in Positions :
                        i < j => utxo_pool[i].nValue >= utxo_pool[j].nValue

\* SelectCoinsBnB returned and left three coins of different values in
\* another order than it got them
C27_Witness ==
    /\ BnBReturned
    /\ Len(utxo_pool) = 3
    /\ utxo_pool[1].nValue > utxo_pool[2].nValue
    /\ utxo_pool[2].nValue > utxo_pool[3].nValue
    /\ utxo_pool # pool_in

\* ------------------------------------------------------------------------
\* C28: KnapsackSolver runs the approximation a second time, against
\* target_value + MIN_CHANGE, exactly when the best sum of the first run is
\* not target_value and nTotalLower >= target_value + MIN_CHANGE; the
\* second run starts afresh, so its result replaces that of the first; when
\* the condition is false the result of the first run is decided on.
\* ------------------------------------------------------------------------
C28_SecondRunExactlyWhenNeeded ==
    /\ [][(pc = "approx1" /\ pc' # "approx1")
             => LET needed == /\ nBest # target_value
                              /\ nTotalLower >= target_value + MIN_CHANGE
                IN  /\ pc' = "approx2" <=> needed
                    /\ pc' = "knapsack_returned" <=> ~needed
                    /\ (nBest = nTargetValue \/ nRep = ITERATIONS)
                    /\ needed => /\ nTargetValue' = target_value + MIN_CHANGE
                                 /\ nBest' = nTotalLower
                                 /\ vfBest' = [i \in 1..Len(vValue) |-> TRUE]
                                 /\ nRep' = 0
                    /\ ~needed => /\ nBest' = nBest /\ vfBest' = vfBest
                                  /\ nTargetValue' = target_value]_vars
    /\ []((pc = "approx1" \/ (KnapsackReturned /\ nTargetValue = target_value))
             => nTargetValue = target_value)
    /\ []((pc = "approx2" \/ (KnapsackReturned /\ nTargetValue > target_value))
             => /\ nTargetValue = target_value + MIN_CHANGE
                /\ nBest >= target_value + MIN_CHANGE
                /\ nBest = SumSet({ vValue[i] : i \in { j \in 1..Len(vValue) : vfBest[j] } },
                                  "nValue"))

\* the subset of a second run was returned, and it is not all of the lower
\* coins
C28_Witness ==
    /\ KnapsackReturned /\ Success
    /\ nTargetValue = target_value + MIN_CHANGE
    /\ ~PreferLarger
    /\ nRep > 0
    /\ nBest < nTotalLower

\* ------------------------------------------------------------------------
\* C29: ApproximateBestSubset starts from vfBest = all coins included and
\* nBest = nTotalLower, runs at most ITERATIONS repetitions and starts no
\* repetition once nBest equals nTargetValue (none at all if nTotalLower
\* equals nTargetValue); it ends for every sequence of random choices.
\* ------------------------------------------------------------------------
C29_ApproximationEnds ==
    /\ [][(pc' # pc /\ pc' \in {"approx1", "approx2"})
             => /\ nBest' = nTotalLower'
                /\ vfBest' = [i \in 1..Len(vValue') |-> TRUE]
                /\ nRep' = 0]_vars
    /\ [](InApproximate => nRep \in 0..ITERATIONS)
    /\ [][(InApproximate /\ pc' = pc)
             => /\ nBest # nTargetValue
                /\ nRep < ITERATIONS
                /\ nRep' = nRep + 1]_vars
    /\ [][(InApproximate /\ pc' # pc)
             => /\ (nBest = nTargetValue \/ nRep = ITERATIONS)
                /\ nTotalLower = nTargetValue => nRep = 0]_vars
    /\ InApproximate ~> KnapsackReturned

\* an approximation stopped before its last repetition because the best
\* sum was the target
C29_Witness ==
    /\ Approximation
    /\ nRep > 0 /\ nRep < ITERATIONS
    /\ nBest = nTargetValue

\* ------------------------------------------------------------------------
\* C30: within a repetition of ApproximateBestSubset, each time including
\* a coin brings nTotal to nTargetValue or more, (nTotal, vfIncluded) is
\* recorded as the best only if nTotal < nBest, and the inclusion is
\* reversed before the next coin.  So after every coin nTotal is below
\* nTargetValue and is the sum of the included coins, the second pass runs
\* only if the first did not reach the target, and nBest never increases,
\* within a repetition and from one repetition to the next.
\* ------------------------------------------------------------------------
RandomChoices == [1..Len(vValue) -> BOOLEAN]

\* the locals after each candidate of the repetition that starts in the
\* current state, when the random source gives rnd
StepsOfRepetition(rnd) ==
    Repetition(rnd, vValue, nTargetValue, [nBest |-> nBest, vfBest |-> vfBest]).steps

IncludedSum(included) ==
    SumSet({ vValue[j] : j \in { k \in 1..Len(vValue) : included[k] } }, "nValue")

\* the locals before step k of a repetition
BeforeStep(steps, k) ==
    IF k = 1
    THEN AfterCandidate(0, 0, [j \in 1..Len(vValue) |-> FALSE], 0, FALSE, nBest, vfBest)
    ELSE steps[k - 1]

StepKeepsInvariant(rnd, steps, k) ==
    LET st == steps[k]
        prev == BeforeStep(steps, k)
        c == st.i + 1
        taken == IF st.nPass = 0 THEN rnd[c] ELSE ~prev.vfIncluded[c]
        total == prev.nTotal + vValue[c].nValue
        incl == [j \in 1..Len(vValue) |-> j = c \/ prev.vfIncluded[j]]
    IN  /\ st.nTotal < nTargetValue
        /\ st.nTotal = IncludedSum(st.vfIncluded)
        /\ st.nBest <= prev.nBest
        /\ st.nPass = 1 => \A j \in 1..(k - 1) :
                               steps[j].nPass = 0 => ~steps[j].fReachedTarget
        /\ IF taken /\ total >= nTargetValue
           THEN /\ st.fReachedTarget
                /\ st.nTotal = prev.nTotal
                /\ st.vfIncluded = prev.vfIncluded
                /\ ~st.vfIncluded[c]
                /\ IF total < prev.nBest
                   THEN st.nBest = total /\ st.vfBest = incl
                   ELSE st.nBest = prev.nBest /\ st.vfBest = prev.vfBest
           ELSE /\ st.nBest = prev.nBest /\ st.vfBest = prev.vfBest
                /\ st.fReachedTarget = prev.fReachedTarget
                /\ st.vfIncluded = (IF taken THEN incl ELSE prev.vfIncluded)
                /\ st.nTotal = (IF taken THEN total ELSE prev.nTotal)

C30_RecordThenReverse ==
    /\ []((InApproximate /\ MoreRepetitions)
             => \A rnd \in RandomChoices :
                    LET steps == StepsOfRepetition(rnd)
                    IN  /\ Len(steps) \in {Len(vValue), 2 * Len(vValue)}
                        /\ \A k \in 1..Len(steps) : StepKeepsInvariant(rnd, steps, k))
    /\ [][(InApproximate /\ pc' = pc) => nBest' <= nBest]_vars

\* a repetition is about to run in which one coin reaches the target
\* without improving on the best and a later coin does improve on it,
\* after an earlier repetition recorded a best
C30_Witness ==
    /\ InApproximate /\ MoreRepetitions
    /\ nRep > 0 /\ nBest < nTotalLower
    /\ \E rnd \in RandomChoices :
          LET steps == StepsOfRepetition(rnd)
          IN  \E j, k \in 1..Len(steps) :
                 /\ j < k
                 /\ steps[j].fReachedTarget /\ ~BeforeStep(steps, j).fReachedTarget
                 /\ steps[j].nBest = nBest
                 /\ steps[k].nBest < BeforeStep(steps, k).nBest

\* every coin costs at least as much now as it will in the long term
NoNegativeWaste == \A i \in Positions : utxo_pool[i].fee >= utxo_pool[i].long_term_fee

\* ------------------------------------------------------------------------
\* C31: when every coin has fee >= long_term_fee and a non-negative
\* effective value and the tries did not run out, the selection returned by
\* SelectCoinsBnB has the least waste of all subsets of the pool whose
\* effective values sum into the acceptance range.
\* ------------------------------------------------------------------------
C31_MinimumWasteWithoutNegativeWaste ==
    (BnBReturned /\ Success /\ ~BudgetExhausted /\ NonNegativePool /\ NoNegativeWaste)
        => \A S \in SUBSET Positions :
               InAcceptanceRange(S) => Waste(S) >= Waste(Chosen(best_selection))

\* the whole tree was searched and a more wasteful in-range subset exists
C31_Witness ==
    /\ TreeExhausted /\ Success /\ NonNegativePool /\ NoNegativeWaste
    /\ \E S \in SUBSET Positions :
           /\ InAcceptanceRange(S)
           /\ Waste(S) > Waste(Chosen(best_selection))
    /\ \E i \in Positions : utxo_pool[i].fee > utxo_pool[i].long_term_fee

\* ------------------------------------------------------------------------
\* C32: with non-negative effective values SelectCoinsBnB never reads
\* selection or utxo_pool out of range: no backtrack is triggered at depth
\* 0, depth is in 1..n at the head of every iteration after the first, and
\* the position read by an inclusion is in 0..n-1.
\* ------------------------------------------------------------------------
C32_IndexSafety ==
    NonNegativePool
        => /\ pc # "out_of_range"
           /\ pc = "loop"
                => /\ depth \in 0..Len(utxo_pool)
                   /\ remaining_tries < TOTAL_TRIES => depth \in 1..Len(utxo_pool)
                   /\ (AtRoot /\ ~TriesOut)
                        => ~(Overshoot \/ MoreWasteful \/ InRange \/ AtLeaf)
                   /\ (~TriesOut /\ ~Overshoot /\ ~MoreWasteful /\ ~InRange
                       /\ ~AtLeaf /\ ~CannotReach)
                        => depth + 1 \in Positions

\* the break at depth 0 was taken with a pool of several coins
C32_Witness ==
    /\ pc = "break_depth0" /\ NonNegativePool /\ AtRoot
    /\ Len(utxo_pool) >= 2
    /\ \E i \in Positions : utxo_pool[i].nValue > 0

\* ------------------------------------------------------------------------
\* C33: SelectCoinsBnB never resets fee_ret: on success it has grown by
\* the sum of the fees of the coins of out_set, on failure it is what the
\* caller passed (FeeIn, what an earlier call left in it).
\* ------------------------------------------------------------------------
C33_FeeAccumulates ==
    BnBReturned
        => /\ Success => fee_ret = FeeIn + SumSet(out_set, "fee")
           /\ Failure => fee_ret = FeeIn

\* a success whose coins carry fees, on top of an earlier amount
C33_Witness ==
    /\ BnBReturned /\ Success
    /\ SumSet(out_set, "fee") > 0
    /\ fee_ret > SumSet(out_set, "fee")

\* ------------------------------------------------------------------------
\* C34: ApproximateBestSubset, called with nTotalLower the sum of vValue
\* and nTotalLower >= nTargetValue, leaves nBest equal to the sum of the
\* values whose vfBest bit is set, with nTargetValue <= nBest <= nTotalLower,
\* for every sequence of random choices.
\* ------------------------------------------------------------------------
C34_BestIsSumOfBestBits ==
    (InApproximate /\ nTotalLower >= nTargetValue)
        => /\ nTotalLower = SumSeq(vValue, 1, Len(vValue))
           /\ nBest = IncludedSum(vfBest)
           /\ nTargetValue <= nBest
           /\ nBest <= nTotalLower

\* the second approximation found a sum strictly between its bounds
C34_Witness ==
    /\ pc = "approx2" /\ ~MoreRepetitions
    /\ nTargetValue < nBest /\ nBest < nTotalLower
    /\ nBest = IncludedSum(vfBest)

\* ------------------------------------------------------------------------
\* C35: when the values of the whole pool sum to at least
\* target_value + MIN_CHANGE, every successful return of KnapsackSolver has
\* value_ret = target_value or value_ret >= target_value + MIN_CHANGE.
\* ------------------------------------------------------------------------
C35_NoAvoidableSmallChange ==
    (KnapsackReturned /\ Success
     /\ SumAt(Positions, "nValue") >= target_value + MIN_CHANGE)
        => \/ value_ret = target_value
           \/ value_ret >= target_value + MIN_CHANGE

\* a subset of the second approximation was returned, with no larger coin
C35_Witness ==
    /\ Approximation /\ Success
    /\ coinLowestLarger = << >>
    /\ nTargetValue = target_value + MIN_CHANGE
    /\ value_ret > target_value + MIN_CHANGE
    /\ Cardinality(out_set) >= 2

\* ------------------------------------------------------------------------
\* C36: the result of KnapsackSolver is one coin or a set of coins of value
\* below target_value + MIN_CHANGE, and when a coin of value at least
\* target_value + MIN_CHANGE exists, value_ret is at most the value of the
\* smallest such coin.
\* ------------------------------------------------------------------------
C36_LargerCoinNeverMixed ==
    (KnapsackReturned /\ Success)
        => /\ \/ Cardinality(out_set) = 1
              \/ \A c \in out_set : c.nValue < target_value + MIN_CHANGE
           /\ \A i \in Positions :
                  utxo_pool[i].nValue >= target_value + MIN_CHANGE
                      => value_ret <= utxo_pool[i].nValue

\* the approximation found a subset that sums to more than the smallest
\* larger coin, and the coin was returned
C36_Witness ==
    /\ Approximation /\ Success
    /\ coinLowestLarger # << >>
    /\ coinLowestLarger[1].nValue < nBest
    /\ out_set = { coinLowestLarger[1] }

\* ------------------------------------------------------------------------
\* C37: when the loop of SelectCoinsBnB ends because the walk backwards
\* went past position 0, every bit of selection is cleared, the running
\* value and curr_waste are 0 and lookahead is the sum of the pool; the
\* loop ends in no other way than this, the tries running out and the
\* unreachable check at depth 0.
\* ------------------------------------------------------------------------
C37_Unwound ==
    pc = "loop_done"
        => /\ done /\ depth = -1
           /\ \A i \in Positions : ~selection[i].first /\ ~selection[i].second
           /\ value_ret = 0
           /\ curr_waste = 0
           /\ lookahead = SumSeq(utxo_pool, 1, Len(utxo_pool))

C37_LoopExits ==
    [][pc = "loop" /\ pc' # "loop"
         => \/ pc' = "break_tries" /\ TriesOut /\ ~done'
            \/ pc' = "break_depth0" /\ AtRoot /\ CannotReach /\ ~done'
            \/ pc' = "loop_done" /\ done']_vars

C37_UnwoundAndOnlyExits == []C37_Unwound /\ C37_LoopExits

\* a pool of three coins was searched through after a selection was found
C37_Witness ==
    /\ pc = "loop_done" /\ Len(utxo_pool) = 3
    /\ HasSolution
    /\ lookahead > 0
    /\ \E i \in Positions : utxo_pool[i].fee # utxo_pool[i].long_term_fee

\* ------------------------------------------------------------------------
\* Vocabulary of the PSBT properties
\* ------------------------------------------------------------------------
InputReturned == pc = "input_returned"
PsbtReturned == pc = "psbt_returned"
ParseFailed == pc = "failed"

\* no key occurs twice among the records a map has taken
NoKeyTwice(keys) ==
    \A i \in 1..Len(keys) : \A j \in 1..Len(keys) : i # j => keys[i] # keys[j]

\* ------------------------------------------------------------------------
\* C38 (as stated): while an input map is deserialised a record whose key
\* repeats one already provided in the same map aborts the parse, so the
\* records taken so far, and those of a successful parse, have pairwise
\* different keys: every field was set by at most one record.
\* ------------------------------------------------------------------------
C38_DuplicateKeyAborts ==
    (pc \in {"in_map", "input_returned"}) => NoKeyTwice(keys_read)

\* ------------------------------------------------------------------------
\* C39 (as stated): PartiallySignedTransaction::Unserialize succeeds only
\* if the magic bytes match, the global map supplied an unsigned
\* transaction exactly once, with no scriptSig or scriptWitness, and as
\* many input maps and output maps were read as the transaction has inputs
\* and outputs; a stream that ends before a map is terminated ends in
\* failure.
\* ------------------------------------------------------------------------
C39_SucceedsOnlyIfComplete ==
    PsbtReturned
        => /\ magic = PSBT_MAGIC_BYTES
           /\ tx_records = 1
           /\ ~tx.signed
           /\ Len(inputs) = tx.vin
           /\ Len(outputs) = tx.vout
           /\ unterminated = 0

====
